---- MODULE Spec2Model ----
(***************************************************************************)
(* A model of the inmemorytree crate: the B-link node API of src/node.rs,  *)
(* the Mutex-based node of src/tree.rs, and the latch primitives of        *)
(* src/sync.rs (binary semaphore, exclusive latch over a parking_lot       *)
(* Mutex, reader/writer latch with upgrade over a parking_lot RwLock)      *)
(* together with the worker threads of its tests.                          *)
(*                                                                         *)
(* Several state machines share the module, each over its own variables:   *)
(*   SpecNode      the single-threaded Node API (node.rs)                  *)
(*   SpecSetters   the setters of node.rs and of tree.rs                   *)
(*   SpecTraverse  one thread latching nodes and moving right (node.rs)    *)
(*   SpecTest      test_binary_semaphore_and_latch (sync.rs)               *)
(*   SpecRw        test_rwlatch's latch traffic (sync.rs)                  *)
(*   SpecSem       the BinarySemaphore with waiters and posters (sync.rs)  *)
(* FairSpecTest, FairSpecRw and FairSpecSem add fair scheduling.           *)
(***************************************************************************)
EXTENDS Integers, Sequences, FiniteSets, TLC

(***************************************************************************)
(* Bounds of the model.                                                    *)
(***************************************************************************)
\* nodes that may be allocated
MaxNodes == 3
\* nodes that a run of the bare Node API (SpecNode, SpecSetters) allocates
MaxNodesApi == 2
\* tree.rs nodes that may be allocated
MaxTreeNodes == 1
\* the order parameter of the tree, passed to create
MaxOrd == 1
\* keys range over 1..MaxKey
MaxKey == 2
\* set_children is given no handle or MaxChildren handles
MaxChildren == 1
\* worker threads of test_binary_semaphore_and_latch (8 in the test)
NumWorkers == 4
\* rw_check_thread, rw_maybe_increment_thread and rw_increment_thread
\* workers of test_rwlatch (5, 5 and 10 in the test)
NumRwCheck == 2
NumRwMaybe == 2
NumRwIncr == 1
\* the incrementing threads stop starting rounds once data reaches MaxData
MaxData == 52
\* completed posts are counted up to MaxPosts
MaxPosts == 3
\* threads that call wait() and threads that call post() on one semaphore
NumSemWaiters == 2
NumSemPosters == 2

\* `if x > 50` of check_thread and `inner.data > 50` of rw_check_thread
Threshold == 50

VARIABLES
    \* ---- node.rs ----
    nodes,      \* the allocated Node<T> cells, by handle 1..Len(nodes)
    last,       \* the last call of the Node API and what it returned
    \* ---- tree.rs ----
    tnodes,     \* the allocated tree::Node<T> cells, by handle 1..Len(tnodes)
    \* ---- sync.rs: the tests' threads and what they share ----
    pc,         \* where each thread is in its function
    x,          \* each thread's local copy of data
    data,       \* TestStruct.data
    mtx,        \* the raw Mutex of the Synchronized<TestStruct>: locked?
    rw,         \* the raw RwLock of the RwSynchronized<TestStruct>
    semInit,    \* the state the BinarySemaphore was initialised with
    semState,   \* the BinarySemaphore's flag
    semMutex,   \* the BinarySemaphore's Mutex: locked?
    parked,     \* the threads parked on the BinarySemaphore's Condvar
    waitRet,    \* what wait() returned to each waiter
    seen,       \* the value of data the main thread read for its assert
    \* ---- history ----
    posts,      \* completed post() calls, counted up to MaxPosts
    incs        \* how much the threads have added to data

nodeVars == <<nodes, last, tnodes>>

syncVars == <<pc, x, data, mtx, rw, semInit, semState, semMutex, parked,
              waitRet, seen, posts, incs>>

vars == <<nodes, last, tnodes, pc, x, data, mtx, rw, semInit, semState,
          semMutex, parked, waitRet, seen, posts, incs>>

\* Option::None for a link, and for "no node" in a call record
None == 0

Keys == 1..MaxKey

Range(s) == {s[i] : i \in DOMAIN s}

IsSorted(s) == \A i, j \in DOMAIN s : i < j => s[i] < s[j]

\* sync.rs LatchType
LatchType == {"Shared", "Upgradable", "Excl"}

(***************************************************************************)
(* The raw state of a parking_lot RwLock: the count of readers (an         *)
(* upgradable holder counts as a reader), the upgradable bit and the       *)
(* writer bit.  RwLock::new leaves all of them clear.                      *)
(***************************************************************************)
RwLock_new == [readers |-> 0, upgradable |-> FALSE, writer |-> FALSE]

(***************************************************************************)
(* node.rs                                                                 *)
(***************************************************************************)
\* The key vectors handed to set_keys: 1..n in ascending order, as in
\* test_set_keys (callers keep keys sorted ascending, without duplicates)
KeySeqs == {[i \in 1..n |-> i] : n \in 0..MaxKey}

\* The order parameters handed to create: the least usize and the tree's
MinOrds == {0, MaxOrd}

\* NodeInner::new, mutated: the fresh node is flagged as the root
NodeInner_new_rooted(min_ord) ==
    [min_ord |-> min_ord, root |-> TRUE, keys |-> <<>>, children |-> <<>>,
     right_link |-> None, out_link |-> None]

\* NodeInner::new
NodeInner_new(min_ord) ==
    [min_ord |-> min_ord, root |-> FALSE, keys |-> <<>>, children |-> <<>>,
     right_link |-> None, out_link |-> None]

\* RwSynchronized::init(item): Arc::new(RwLock::new(item))
RwSynchronized_init(item) == [inner |-> item, latch |-> RwLock_new]

\* slice::binary_search as used by has_key: TRUE for Ok(_), FALSE for Err(_).
\* Searches keys[lo..hi) by halving, comparing the middle element with key.
RECURSIVE binary_search_is_ok(_, _, _, _)
binary_search_is_ok(keys, key, lo, hi) ==
    IF lo >= hi THEN FALSE
    ELSE LET mid == lo + ((hi - lo) \div 2)
         IN IF keys[mid] = key THEN TRUE
            ELSE IF keys[mid] < key
                 THEN binary_search_is_ok(keys, key, mid + 1, hi)
                 ELSE binary_search_is_ok(keys, key, lo, mid)

\* has_key's result on the inner node: binary_search(&key).is_err()
HasKey(inner, key) ==
    ~ binary_search_is_ok(inner.keys, key, 1, Len(inner.keys) + 1)

\* would_overflow's result on the inner node
WouldOverflow(inner) == Len(inner.keys) = inner.min_ord

\* would_underflow's result on the inner node
WouldUnderflow(inner) == Len(inner.keys) = 2 * inner.min_ord

Handles == 1..Len(nodes)

Call(op, self, key, lt, retb, retn) ==
    [op |-> op, self |-> self, key |-> key, latch_type |-> lt,
     retb |-> retb, retn |-> retn, arg |-> <<>>]

\* a call of a setter on self with the value arg; setters return ()
SetterCall(op, self, arg) ==
    [Call(op, self, 0, "Shared", FALSE, None) EXCEPT !.arg = arg]

\* Node::create(min_ord)
create(min_ord) ==
    /\ Len(nodes) < MaxNodes
    /\ nodes' = Append(nodes, RwSynchronized_init(NodeInner_new(min_ord)))
    /\ last' = Call("create", None, min_ord, "Shared", FALSE, Len(nodes) + 1)
    /\ UNCHANGED <<tnodes, syncVars>>

\* self.has_key(&key)
has_key(self, key) ==
    /\ last' = Call("has_key", self, key, "Shared",
                    HasKey(nodes[self].inner, key), None)
    /\ UNCHANGED <<nodes, tnodes, syncVars>>

\* self.is_root()
is_root(self) ==
    /\ last' = Call("is_root", self, 0, "Shared", nodes[self].inner.root, None)
    /\ UNCHANGED <<nodes, tnodes, syncVars>>

\* self.move_right(&key, latch_type): reads self and returns Node::create(0)
move_right(self, key, latch_type) ==
    /\ Len(nodes) < MaxNodes
    /\ nodes' = Append(nodes, RwSynchronized_init(NodeInner_new(0)))
    /\ last' = Call("move_right", self, key, latch_type, FALSE, Len(nodes) + 1)
    /\ UNCHANGED <<tnodes, syncVars>>

\* set_children, mutated: a node given children is flagged as the root
set_children_rooting(self, children) ==
    /\ nodes' = [nodes EXCEPT ![self].inner.children = children,
                              ![self].inner.root = (children # <<>>)]
    /\ last' = SetterCall("set_children", self, children)
    /\ UNCHANGED <<tnodes, syncVars>>

\* self.set_children(children)
set_children(self, children) ==
    /\ nodes' = [nodes EXCEPT ![self].inner.children = children]
    /\ last' = SetterCall("set_children", self, children)
    /\ UNCHANGED <<tnodes, syncVars>>

\* set_keys, mutated: the children vector is cleared with the old keys
set_keys_clearing(self, keys) ==
    /\ nodes' = [nodes EXCEPT ![self].inner.keys = keys,
                              ![self].inner.children = <<>>]
    /\ last' = SetterCall("set_keys", self, keys)
    /\ UNCHANGED <<tnodes, syncVars>>

\* self.set_keys(keys)
set_keys(self, keys) ==
    /\ nodes' = [nodes EXCEPT ![self].inner.keys = keys]
    /\ last' = SetterCall("set_keys", self, keys)
    /\ UNCHANGED <<tnodes, syncVars>>

\* self.would_overflow()
would_overflow(self) ==
    /\ last' = Call("would_overflow", self, 0, "Shared",
                    WouldOverflow(nodes[self].inner), None)
    /\ UNCHANGED <<nodes, tnodes, syncVars>>

\* self.would_underflow()
would_underflow(self) ==
    /\ last' = Call("would_underflow", self, 0, "Shared",
                    WouldUnderflow(nodes[self].inner), None)
    /\ UNCHANGED <<nodes, tnodes, syncVars>>

\* The vectors of handles handed to set_children: none, or MaxChildren
\* clones of the first node's handle
ChildSeqs == {<<>>, [i \in 1..MaxChildren |-> 1]}

\* no thread, no traffic on the latches
InitNoThreads ==
    /\ pc = <<>>
    /\ x = <<>>
    /\ data = 0
    /\ mtx = FALSE
    /\ rw = RwLock_new
    /\ semInit = FALSE
    /\ semState = FALSE
    /\ semMutex = FALSE
    /\ parked = {}
    /\ waitRet = <<>>
    /\ seen = 0
    /\ posts = 0
    /\ incs = 0

\* no node allocated, no call made
InitNoNodes ==
    /\ nodes = <<>>
    /\ tnodes = <<>>
    /\ last = Call("none", None, 0, "Shared", FALSE, None)

InitNode ==
    /\ InitNoNodes
    /\ InitNoThreads

NextNode ==
    \/ \E min_ord \in MinOrds : Len(nodes) < MaxNodesApi /\ create(min_ord)
    \/ \E self \in Handles, key \in Keys : has_key(self, key)
    \/ \E self \in Handles : is_root(self)
    \/ \E self \in Handles, key \in Keys, lt \in LatchType :
           Len(nodes) < MaxNodesApi /\ move_right(self, key, lt)
    \/ \E self \in Handles, children \in ChildSeqs : set_children(self, children)
    \/ \E self \in Handles, keys \in KeySeqs : set_keys(self, keys)
    \/ \E self \in Handles : would_overflow(self)
    \/ \E self \in Handles : would_underflow(self)

SpecNode == InitNode /\ [][NextNode]_vars

(***************************************************************************)
(* Claims about the Node API (checked under SpecNode).                     *)
(***************************************************************************)
\* the node a call was made on, as it is when the call returns
Self == nodes[last.self].inner

\* C1: would_overflow() returns true exactly when the node holds
\* 2*min_ord keys, and false for every other key count.
C1_WouldOverflowIffTwiceMinOrd ==
    last.op = "would_overflow" =>
        (last.retb <=> (Len(Self.keys) = 2 * Self.min_ord))

\* C2: would_underflow() returns true exactly when the node holds
\* min_ord keys, and false for every other key count.
C2_WouldUnderflowIffMinOrd ==
    last.op = "would_underflow" =>
        (last.retb <=> (Len(Self.keys) = Self.min_ord))

\* C3: on a node whose keys are sorted ascending, has_key(k) returns true
\* if and only if k is one of the node's keys.
C3_HasKeyIffPresent ==
    (last.op = "has_key" /\ IsSorted(Self.keys)) =>
        (last.retb <=> (last.key \in Range(Self.keys)))

\* C9: create(min_ord) returns a fresh unlatched node with no keys, no
\* children, no right_link, no out_link, root flag false and min_ord equal
\* to the argument.
C9_CreateEmptyNonRootUnlatched ==
    last.op = "create" =>
        /\ last.retn \in Handles
        /\ nodes[last.retn].inner.min_ord = last.key
        /\ nodes[last.retn].inner.root = FALSE
        /\ nodes[last.retn].inner.keys = <<>>
        /\ nodes[last.retn].inner.children = <<>>
        /\ nodes[last.retn].inner.right_link = None
        /\ nodes[last.retn].inner.out_link = None
        /\ nodes[last.retn].latch.readers = 0
        /\ ~ nodes[last.retn].latch.upgradable
        /\ ~ nodes[last.retn].latch.writer
        /\ \A h \in Handles :
               /\ last.retn \notin Range(nodes[h].inner.children)
               /\ nodes[h].inner.right_link # last.retn
               /\ nodes[h].inner.out_link # last.retn

\* C9 witness: a second node is created with a non-zero order while the
\* first already has keys and children.
C9_Witness ==
    /\ last.op = "create"
    /\ last.key = MaxOrd
    /\ last.retn = 2
    /\ nodes[1].inner.keys # <<>>
    /\ nodes[1].inner.children # <<>>

\* the nodes reachable from n by zero or more right_link/out_link steps
RECURSIVE ReachableFrom(_, _)
ReachableFrom(S, fuel) ==
    LET step == {nodes[h].inner.right_link : h \in S}
                    \cup {nodes[h].inner.out_link : h \in S}
        T == S \cup (step \ {None})
    IN IF fuel = 0 \/ T = S THEN S ELSE ReachableFrom(T, fuel - 1)

\* C10: move_right started on N returns a node reachable from N by zero or
\* more right_link/out_link steps; when N has neither link it returns N.
C10_MoveRightStaysOnChain ==
    last.op = "move_right" =>
        /\ last.retn \in ReachableFrom({last.self}, Len(nodes))
        /\ (Self.right_link = None /\ Self.out_link = None)
               => last.retn = last.self

\* C12: a set_keys or set_children call that would leave a node with a
\* non-empty children vector and children.len() != keys.len() + 1 is not
\* applied, so every node has no children or one more child than keys.
C12_ChildrenOneMoreThanKeys ==
    \A h \in Handles :
        \/ nodes[h].inner.children = <<>>
        \/ Len(nodes[h].inner.children) = Len(nodes[h].inner.keys) + 1

\* C13: no node has min_ord < 1, and a node obtained from another node by
\* move_right has the min_ord of the node it was obtained from.
C13_MinOrdPositiveAndKept ==
    /\ \A h \in Handles : nodes[h].inner.min_ord >= 1
    /\ last.op = "move_right" =>
           nodes[last.retn].inner.min_ord = Self.min_ord

\* C20: no call of the Node API changes a node's root flag, so the flag
\* is false on every node and is_root() returns false.
C20_RootFlagStaysFalse ==
    /\ \A h \in Handles : nodes[h].inner.root = FALSE
    /\ last.op = "is_root" => last.retb = FALSE

\* C20 witness: is_root() is asked of a node that has been given keys and
\* children, with a second node allocated.
C20_Witness ==
    /\ last.op = "is_root"
    /\ last.retb = FALSE
    /\ Self.keys # <<>>
    /\ Self.children # <<>>
    /\ Len(nodes) = 2

(***************************************************************************)
(* tree.rs: the Mutex-based node and the setters of its NodeInner.  A      *)
(* setter takes &mut NodeInner, which a caller has only through the        *)
(* MutexGuard of node.lock(), so the setters run on a locked node.         *)
(***************************************************************************)
THandles == 1..Len(tnodes)

\* tree.rs NodeInner::new
TreeNodeInner_new ==
    [keys |-> <<>>, children |-> <<>>, right_link |-> None, out_link |-> None]

\* Synchronized::init(item): Arc::new(Mutex::new(item))
Synchronized_init(item) == [inner |-> item, locked |-> FALSE]

\* the Option<Node> values handed to set_right_link and set_out_link
LinkArgs == {None} \cup THandles

\* the vectors handed to tree.rs set_children: none, or MaxChildren clones
\* of the first node's handle
TreeChildSeqs == {<<>>, [i \in 1..MaxChildren |-> 1]}

\* tree.rs Node::create()
tree_create ==
    /\ Len(tnodes) < MaxTreeNodes
    /\ tnodes' = Append(tnodes, Synchronized_init(TreeNodeInner_new))
    /\ last' = Call("Node::create", None, 0, "Shared", FALSE, Len(tnodes) + 1)
    /\ UNCHANGED <<nodes, syncVars>>

\* let mut data = node.lock()
tree_lock(self) ==
    /\ ~ tnodes[self].locked
    /\ tnodes' = [tnodes EXCEPT ![self].locked = TRUE]
    /\ last' = Call("lock", self, 0, "Shared", FALSE, None)
    /\ UNCHANGED <<nodes, syncVars>>

\* drop(data): the guard goes out of scope
tree_unlock(self) ==
    /\ tnodes[self].locked
    /\ tnodes' = [tnodes EXCEPT ![self].locked = FALSE]
    /\ last' = Call("drop", self, 0, "Shared", FALSE, None)
    /\ UNCHANGED <<nodes, syncVars>>

\* data.set_right_link(right_link)
tree_set_right_link(self, right_link) ==
    /\ tnodes[self].locked
    /\ tnodes' = [tnodes EXCEPT ![self].inner.right_link = right_link]
    /\ last' = SetterCall("NodeInner::set_right_link", self, right_link)
    /\ UNCHANGED <<nodes, syncVars>>

\* data.set_out_link(out_link)
tree_set_out_link(self, out_link) ==
    /\ tnodes[self].locked
    /\ tnodes' = [tnodes EXCEPT ![self].inner.out_link = out_link]
    /\ last' = SetterCall("NodeInner::set_out_link", self, out_link)
    /\ UNCHANGED <<nodes, syncVars>>

\* data.set_keys(keys)
tree_set_keys(self, keys) ==
    /\ tnodes[self].locked
    /\ tnodes' = [tnodes EXCEPT ![self].inner.keys = keys]
    /\ last' = SetterCall("NodeInner::set_keys", self, keys)
    /\ UNCHANGED <<nodes, syncVars>>

\* data.set_children(children)
tree_set_children(self, children) ==
    /\ tnodes[self].locked
    /\ tnodes' = [tnodes EXCEPT ![self].inner.children = children]
    /\ last' = SetterCall("NodeInner::set_children", self, children)
    /\ UNCHANGED <<nodes, syncVars>>

\* The setters of both node types: a run works on node.rs nodes or on
\* tree.rs nodes.
NextSetters ==
    \/ \E min_ord \in MinOrds :
           tnodes = <<>> /\ Len(nodes) < MaxNodesApi /\ create(min_ord)
    \/ \E self \in Handles, children \in ChildSeqs : set_children(self, children)
    \/ \E self \in Handles, keys \in KeySeqs : set_keys(self, keys)
    \/ nodes = <<>> /\ tree_create
    \/ \E self \in THandles : tree_lock(self)
    \/ \E self \in THandles : tree_unlock(self)
    \/ \E self \in THandles, right_link \in LinkArgs :
           tree_set_right_link(self, right_link)
    \/ \E self \in THandles, out_link \in LinkArgs :
           tree_set_out_link(self, out_link)
    \/ \E self \in THandles, keys \in KeySeqs : tree_set_keys(self, keys)
    \/ \E self \in THandles, children \in TreeChildSeqs :
           tree_set_children(self, children)

SpecSetters == InitNode /\ [][NextSetters]_vars

(***************************************************************************)
(* Claims about the setters (checked under SpecSetters).                   *)
(***************************************************************************)
NodeFields == {"min_ord", "root", "keys", "children", "right_link", "out_link"}

TreeNodeFields == {"keys", "children", "right_link", "out_link"}

\* A step changes field f of node.rs node self to v and nothing else of
\* any node: no other field, no latch, no other node, no allocation.
OnlyNodeField(self, f, v) ==
    /\ Len(nodes') = Len(nodes)
    /\ \A h \in Handles :
           /\ nodes'[h].latch = nodes[h].latch
           /\ \A g \in NodeFields :
                  nodes'[h].inner[g] =
                      IF h = self /\ g = f THEN v ELSE nodes[h].inner[g]

\* The same of a tree.rs node and its Mutex.
OnlyTreeNodeField(self, f, v) ==
    /\ Len(tnodes') = Len(tnodes)
    /\ \A h \in THandles :
           /\ tnodes'[h].locked = tnodes[h].locked
           /\ \A g \in TreeNodeFields :
                  tnodes'[h].inner[g] =
                      IF h = self /\ g = f THEN v ELSE tnodes[h].inner[g]

\* C16: a setter makes its own field exactly the value it was given and
\* leaves every other field of the node, the node's latch state and every
\* other node as they were: set_keys and set_children of node.rs, and
\* set_keys, set_children, set_right_link and set_out_link of tree.rs
\* (set_out_link(None) included).
C16_SettersChangeOnlyOwnField ==
    [][/\ last'.op = "set_keys" =>
             OnlyNodeField(last'.self, "keys", last'.arg)
       /\ last'.op = "set_children" =>
             OnlyNodeField(last'.self, "children", last'.arg)
       /\ last'.op = "NodeInner::set_keys" =>
             OnlyTreeNodeField(last'.self, "keys", last'.arg)
       /\ last'.op = "NodeInner::set_children" =>
             OnlyTreeNodeField(last'.self, "children", last'.arg)
       /\ last'.op = "NodeInner::set_right_link" =>
             OnlyTreeNodeField(last'.self, "right_link", last'.arg)
       /\ last'.op = "NodeInner::set_out_link" =>
             OnlyTreeNodeField(last'.self, "out_link", last'.arg)]_vars

\* C16 witness: set_out_link(None) has returned on a locked node whose
\* keys, children and right link are set.
C16_Witness ==
    /\ last.op = "NodeInner::set_out_link"
    /\ last.arg = None
    /\ tnodes[last.self].locked
    /\ tnodes[last.self].inner.out_link = None
    /\ tnodes[last.self].inner.keys # <<>>
    /\ tnodes[last.self].inner.children # <<>>
    /\ tnodes[last.self].inner.right_link # None

(***************************************************************************)
(* A traversal over node.rs nodes: one thread latches a node through the   *)
(* RwLatch methods of its RwSynchronized cell, asks has_key and calls      *)
(* move_right, while a split of an unlatched node may take place.  The     *)
(* crate has no split; the one here is the split of the specification's    *)
(* insert (section 4.3), taken as one step under the exclusive latch.      *)
(***************************************************************************)
\* the raw state of a node's RwLock held once in mode latch_type
RwLock_held(latch_type) ==
    CASE latch_type = "Shared" ->
           [readers |-> 1, upgradable |-> FALSE, writer |-> FALSE]
      [] latch_type = "Upgradable" ->
           [readers |-> 1, upgradable |-> TRUE, writer |-> FALSE]
      [] latch_type = "Excl" ->
           [readers |-> 0, upgradable |-> FALSE, writer |-> TRUE]

\* self.acquire_shared() / acquire_upgradable() / acquire_excl() by the
\* traversing thread, which holds no latch at the call
latch_node(self, latch_type) ==
    /\ \A h \in Handles : nodes[h].latch = RwLock_new
    /\ nodes' = [nodes EXCEPT ![self].latch = RwLock_held(latch_type)]
    /\ last' = Call("acquire", self, 0, latch_type, FALSE, None)
    /\ UNCHANGED <<tnodes, syncVars>>

\* self.release_shared() / release_upgradable() / release_excl() of the
\* latch the traversing thread holds on self
unlatch_node(self, latch_type) ==
    /\ nodes[self].latch = RwLock_held(latch_type)
    /\ nodes' = [nodes EXCEPT ![self].latch = RwLock_new]
    /\ last' = Call("release", self, 0, latch_type, FALSE, None)
    /\ UNCHANGED <<tnodes, syncVars>>

\* Split of node self by another thread: a new right sibling takes the
\* upper half of the keys and self's right link, and self's right link
\* is set to the sibling.  The splitter holds self exclusively for the
\* step, so self is unlatched before and after.
split(self) ==
    /\ Len(nodes) < MaxNodes
    /\ nodes[self].latch = RwLock_new
    /\ Len(nodes[self].inner.keys) >= 2
    /\ LET inner == nodes[self].inner
           n == Len(inner.keys)
           keep == n - (n \div 2)
           sibling == [NodeInner_new(inner.min_ord) EXCEPT
                          !.keys = SubSeq(inner.keys, keep + 1, n),
                          !.right_link = inner.right_link]
       IN nodes' = Append([nodes EXCEPT
                              ![self].inner.keys = SubSeq(inner.keys, 1, keep),
                              ![self].inner.right_link = Len(nodes) + 1],
                          RwSynchronized_init(sibling))
    /\ last' = Call("split", self, 0, "Excl", FALSE, Len(nodes) + 1)
    /\ UNCHANGED <<tnodes, syncVars>>

NextTraverse ==
    \/ \E min_ord \in MinOrds : nodes = <<>> /\ create(min_ord)
    \/ \E self \in Handles, keys \in KeySeqs :
           nodes[self].inner.right_link = None /\ set_keys(self, keys)
    \/ \E self \in Handles, lt \in LatchType : latch_node(self, lt)
    \/ \E self \in Handles, lt \in LatchType : unlatch_node(self, lt)
    \/ \E self \in Handles : Len(nodes) < MaxNodes - 1 /\ split(self)
    \/ \E self \in Handles, key \in Keys : has_key(self, key)
    \/ \E self \in Handles, key \in Keys, lt \in LatchType :
           move_right(self, key, lt)

SpecTraverse == InitNode /\ [][NextTraverse]_vars

(***************************************************************************)
(* Claims about the traversal (checked under SpecTraverse).                *)
(***************************************************************************)
\* C11: a thread that calls move_right holding latch_type on node N holds,
\* when the call returns, latch_type on the returned node and no latch on
\* any other node: N's latch is released whenever the returned node is not
\* N, so the thread never ends the call with latches on two nodes.
C11_MoveRightHandsLatchOver ==
    [][(/\ last'.op = "move_right"
        /\ nodes[last'.self].latch = RwLock_held(last'.latch_type))
       => /\ nodes'[last'.retn].latch = RwLock_held(last'.latch_type)
          /\ \A h \in 1..Len(nodes') :
                 h # last'.retn => nodes'[h].latch = RwLock_new]_vars

\* C15: after a split has moved key k from node N into N's new right
\* sibling, move_right(k) called on N returns that sibling, and has_key(k)
\* asked of the sibling reports the key found.
C15_MoveRightFindsKeyAfterSplit ==
    /\ (/\ last.op = "move_right"
        /\ Self.right_link # None
        /\ last.key \in Range(nodes[Self.right_link].inner.keys))
       => last.retn = Self.right_link
    /\ (/\ last.op = "has_key"
        /\ \E h \in Handles : nodes[h].inner.right_link = last.self
        /\ last.key \in Range(Self.keys))
       => last.retb = TRUE

(***************************************************************************)
(* sync.rs: the threads of the tests.  Thread 0 is the test's main thread; *)
(* the workers are the closures spawned on the pool.                       *)
(***************************************************************************)
Main == 0

\* test_binary_semaphore_and_latch: worker i runs check_thread when
\* i & 1 == 0 and increment_thread otherwise
TestWorkers == 1..NumWorkers
Checkers == {t \in TestWorkers : (t - 1) % 2 = 0}
Incrementers == TestWorkers \ Checkers

\* test_rwlatch: rw_check_thread, rw_maybe_increment_thread and
\* rw_increment_thread workers, in the order they are spawned
RwCheckers == 1..NumRwCheck
RwMaybes == (NumRwCheck + 1)..(NumRwCheck + NumRwMaybe)
RwIncrementers ==
    (NumRwCheck + NumRwMaybe + 1)..(NumRwCheck + NumRwMaybe + NumRwIncr)
RwWorkers == RwCheckers \cup RwMaybes \cup RwIncrementers

Goto(t, label) == pc' = [pc EXCEPT ![t] = label]

(***************************************************************************)
(* BinarySemaphore = Arc<(Mutex<bool>, Condvar)>                           *)
(***************************************************************************)
\* BinarySemaphore::init(state)
BinarySemaphore_init(state) ==
    /\ semInit = state
    /\ semState = state
    /\ semMutex = FALSE
    /\ parked = {}

\* post, `let mut state = mutex.lock()`
post_lock(t) ==
    /\ pc[t] = "post"
    /\ ~ semMutex
    /\ semMutex' = TRUE
    /\ Goto(t, "post_locked")
    /\ UNCHANGED <<x, data, mtx, rw, semState, parked, waitRet, seen, posts,
                   incs, semInit, nodeVars>>

\* post, `*state = !*state; condvar.notify_one();` and the guard's drop:
\* the flag is flipped, one parked thread (if any) is woken, the mutex freed
post_flip(t) ==
    /\ pc[t] = "post_locked"
    /\ semState' = ~ semState
    /\ semMutex' = FALSE
    /\ posts' = IF posts < MaxPosts THEN posts + 1 ELSE posts
    /\ IF parked = {}
       THEN /\ Goto(t, "release")
            /\ UNCHANGED parked
       ELSE \E w \in parked :
                /\ parked' = parked \ {w}
                /\ pc' = [pc EXCEPT ![t] = "release", ![w] = "wait_woken"]
    /\ UNCHANGED <<x, data, mtx, rw, waitRet, seen, incs, semInit, nodeVars>>

\* wait, `let mut state = mutex.lock()`
wait_lock(t) ==
    /\ pc[t] = "wait"
    /\ ~ semMutex
    /\ semMutex' = TRUE
    /\ Goto(t, "wait_locked")
    /\ UNCHANGED <<x, data, mtx, rw, semState, parked, waitRet, seen, posts,
                   incs, semInit, nodeVars>>

\* wait, mutated: returns the flag without testing it
wait_check_once(t) ==
    /\ pc[t] = "wait_locked"
    /\ semMutex' = FALSE
    /\ waitRet' = [waitRet EXCEPT ![t] = semState]
    /\ Goto(t, "assert")
    /\ UNCHANGED <<x, data, mtx, rw, semState, parked, seen, posts, incs, semInit,
                   nodeVars>>

\* wait, mutated: a wait that returns takes the signal with it
wait_check_consuming(t) ==
    /\ pc[t] = "wait_locked"
    /\ semMutex' = FALSE
    /\ IF semState
       THEN /\ waitRet' = [waitRet EXCEPT ![t] = semState]
            /\ semState' = FALSE
            /\ Goto(t, "assert")
            /\ UNCHANGED parked
       ELSE /\ parked' = parked \cup {t}
            /\ Goto(t, "wait_parked")
            /\ UNCHANGED <<waitRet, semState>>
    /\ UNCHANGED <<x, data, mtx, rw, seen, posts, incs, semInit, nodeVars>>

\* wait, `while !*state { condvar.wait(&mut state) }  *state`: with the
\* mutex held, either return the flag (dropping the guard) or park on the
\* condvar, which frees the mutex
wait_check(t) ==
    /\ pc[t] = "wait_locked"
    /\ semMutex' = FALSE
    /\ IF semState
       THEN /\ waitRet' = [waitRet EXCEPT ![t] = semState]
            /\ Goto(t, "assert")
            /\ UNCHANGED parked
       ELSE /\ parked' = parked \cup {t}
            /\ Goto(t, "wait_parked")
            /\ UNCHANGED waitRet
    /\ UNCHANGED <<x, data, mtx, rw, semState, seen, posts, incs, semInit, nodeVars>>

\* wait, the return of condvar.wait: the woken thread takes the mutex again
wait_wake(t) ==
    /\ pc[t] = "wait_woken"
    /\ ~ semMutex
    /\ semMutex' = TRUE
    /\ Goto(t, "wait_locked")
    /\ UNCHANGED <<x, data, mtx, rw, semState, parked, waitRet, seen, posts,
                   incs, semInit, nodeVars>>

(***************************************************************************)
(* Synchronized<T> = Arc<Mutex<T>>                                         *)
(***************************************************************************)
\* Mutex::is_locked
is_locked == mtx

\* latch, mutated: takes the mutex without waiting for it
latch_nowait(t) ==
    /\ pc[t] = "loop"
    /\ t \in Incrementers => data < MaxData
    /\ mtx' = TRUE
    /\ Goto(t, "held")
    /\ UNCHANGED <<x, data, rw, semState, semMutex, parked, waitRet, seen,
                   posts, incs, semInit, nodeVars>>

\* sync.latch(): self.raw().lock(), which blocks while the mutex is locked
latch(t) ==
    /\ pc[t] = "loop"
    /\ t \in Incrementers => data < MaxData
    /\ ~ mtx
    /\ mtx' = TRUE
    /\ Goto(t, "held")
    /\ UNCHANGED <<x, data, rw, semState, semMutex, parked, waitRet, seen,
                   posts, incs, semInit, nodeVars>>

\* sync.unlatch(): self.raw().unlock(); the caller's iteration ends and its
\* local goes out of scope
unlatch(t) ==
    /\ pc[t] = "release"
    /\ mtx' = FALSE
    /\ x' = [x EXCEPT ![t] = 0]
    /\ Goto(t, "loop")
    /\ UNCHANGED <<data, rw, semState, semMutex, parked, waitRet, seen,
                   posts, incs, semInit, nodeVars>>

(***************************************************************************)
(* test_binary_semaphore_and_latch and its threads                         *)
(***************************************************************************)
\* check_thread, `let x = (*inner).data; if x > 50 { sem.post() }`
check_thread(t) ==
    /\ t \in Checkers
    /\ pc[t] = "held"
    /\ x' = [x EXCEPT ![t] = data]
    /\ Goto(t, IF data > Threshold THEN "post" ELSE "release")
    /\ UNCHANGED <<data, mtx, rw, semState, semMutex, parked, waitRet, seen,
                   posts, incs, semInit, nodeVars>>

\* increment_thread, the load of `(*inner).data += 1`
increment_thread_load(t) ==
    /\ t \in Incrementers
    /\ pc[t] = "held"
    /\ x' = [x EXCEPT ![t] = data]
    /\ Goto(t, "store")
    /\ UNCHANGED <<data, mtx, rw, semState, semMutex, parked, waitRet, seen,
                   posts, incs, semInit, nodeVars>>

\* increment_thread, the store of `(*inner).data += 1`
increment_thread_store(t) ==
    /\ t \in Incrementers
    /\ pc[t] = "store"
    /\ data' = x[t] + 1
    /\ incs' = incs + 1
    /\ Goto(t, "release")
    /\ UNCHANGED <<x, mtx, rw, semState, semMutex, parked, waitRet, seen,
                   posts, semInit, nodeVars>>

\* the values an unlatched read of data may yield: the stored value, or the
\* value a thread is storing at that moment
RacyData == {data} \cup {x[t] + 1 : t \in {u \in DOMAIN pc : pc[u] = "store"}}

\* the main thread after wait(): `assert!(state == true)` and the unlatched
\* read of data for `assert!(data > 50)`
main_assert ==
    /\ pc[Main] = "assert"
    /\ seen' \in RacyData
    /\ Goto(Main, "done")
    /\ UNCHANGED <<x, data, mtx, rw, semState, semMutex, parked, waitRet,
                   posts, incs, semInit, nodeVars>>

InitTest ==
    /\ InitNoNodes
    /\ BinarySemaphore_init(FALSE)
    /\ data = 0
    /\ mtx = FALSE
    /\ rw = RwLock_new
    /\ pc = [t \in {Main} \cup TestWorkers |->
                IF t = Main THEN "wait" ELSE "loop"]
    /\ x = [t \in {Main} \cup TestWorkers |-> 0]
    /\ waitRet = [t \in {Main} |-> FALSE]
    /\ seen = 0
    /\ posts = 0
    /\ incs = 0

NextTest ==
    \/ \E t \in TestWorkers : latch(t)
    \/ \E t \in TestWorkers : check_thread(t)
    \/ \E t \in TestWorkers : post_lock(t)
    \/ \E t \in TestWorkers : post_flip(t)
    \/ \E t \in TestWorkers : increment_thread_load(t)
    \/ \E t \in TestWorkers : increment_thread_store(t)
    \/ \E t \in TestWorkers : unlatch(t)
    \/ wait_lock(Main)
    \/ wait_check(Main)
    \/ wait_wake(Main)
    \/ main_assert

SpecTest == InitTest /\ [][NextTest]_vars

\* the steps of one worker of test_binary_semaphore_and_latch
TestWorkerStep(t) ==
    \/ latch(t)
    \/ check_thread(t)
    \/ post_lock(t)
    \/ post_flip(t)
    \/ increment_thread_load(t)
    \/ increment_thread_store(t)
    \/ unlatch(t)

\* the steps of the main thread
MainStep ==
    \/ wait_lock(Main)
    \/ wait_check(Main)
    \/ wait_wake(Main)
    \/ main_assert

\* Every thread keeps being scheduled, and a thread blocked on a parking_lot
\* lock that is freed again and again gets it in the end (the locks hand
\* over to a starved waiter).
FairSpecTest ==
    /\ SpecTest
    /\ \A t \in TestWorkers : SF_vars(TestWorkerStep(t))
    /\ SF_vars(MainStep)

(***************************************************************************)
(* Claims about the semaphore and the exclusive latch (SpecTest).          *)
(***************************************************************************)
\* the main thread's wait() has returned
WaitReturned == pc[Main] \in {"assert", "done"}

\* C6: wait() returns only when the flag is true, and returns true; on a
\* semaphore initialised false it does not return before a post() has
\* completed, so the counter is above 50 when wait() returns in the test.
C6_WaitReturnsTrueAfterPost ==
    WaitReturned =>
        /\ waitRet[Main] = TRUE
        /\ posts >= 1
        /\ data > Threshold
        /\ pc[Main] = "done" => seen > Threshold

\* C6 witness: wait() has returned and the main thread has read the
\* counter, after the waiter had been posted on more than once.
C6_Witness ==
    /\ pc[Main] = "done"
    /\ waitRet[Main] = TRUE
    /\ seen > Threshold
    /\ posts >= 2

\* C7: once the blocked waiter has been posted on, it eventually returns
\* from wait(), however many posts the checker threads make.
C7_PostedWaiterReturns == (pc[Main] = "wait_woken") ~> WaitReturned

\* thread t is between its latch() and its unlatch()
Latched(t) == pc[t] \in {"held", "store", "post", "post_locked", "release"}

\* C8: at most one thread is between latch() and unlatch(); is_locked() is
\* true exactly while some thread is; no increment made under the latch is
\* lost.
C8_LatchExcludesAndKeepsIncrements ==
    /\ Cardinality({t \in TestWorkers : Latched(t)}) <= 1
    /\ is_locked <=> \E t \in TestWorkers : Latched(t)
    /\ data = incs

\* C8 witness: a thread is storing its increment under the latch after
\* other increments were made, while every other worker is outside.
C8_Witness ==
    /\ is_locked
    /\ incs >= 2
    /\ \E t \in Incrementers :
           /\ pc[t] = "store"
           /\ \A u \in TestWorkers \ {t} : pc[u] = "loop"

(***************************************************************************)
(* RwSynchronized<T> = Arc<RwLock<T>>.  The raw lock admits a reader while *)
(* the writer bit is clear, and an upgradable reader while the writer and  *)
(* upgradable bits are clear; a writer first takes the writer bit (while   *)
(* the writer and upgradable bits are clear) and then waits for the        *)
(* readers to leave; upgrade trades the upgradable hold for the writer bit *)
(* in one atomic step and then waits for the other readers to leave.       *)
(***************************************************************************)
\* acquire_shared: self.raw().lock_shared()
acquire_shared(t) ==
    /\ pc[t] = "loop"
    /\ ~ rw.writer
    /\ rw' = [rw EXCEPT !.readers = @ + 1]
    /\ Goto(t, "held")
    /\ UNCHANGED <<x, data, mtx, semState, semMutex, parked, waitRet, seen,
                   posts, incs, semInit, nodeVars>>

\* acquire_upgradable, mutated: does not look at the upgradable bit
acquire_upgradable_any(t) ==
    /\ pc[t] = "loop"
    /\ data < MaxData
    /\ ~ rw.writer
    /\ rw' = [rw EXCEPT !.readers = @ + 1, !.upgradable = TRUE]
    /\ Goto(t, "determine")
    /\ UNCHANGED <<x, data, mtx, semState, semMutex, parked, waitRet, seen,
                   posts, incs, semInit, nodeVars>>

\* acquire_upgradable: self.raw().lock_upgradable()
acquire_upgradable(t) ==
    /\ pc[t] = "loop"
    /\ data < MaxData
    /\ ~ rw.writer
    /\ ~ rw.upgradable
    /\ rw' = [rw EXCEPT !.readers = @ + 1, !.upgradable = TRUE]
    /\ Goto(t, "determine")
    /\ UNCHANGED <<x, data, mtx, semState, semMutex, parked, waitRet, seen,
                   posts, incs, semInit, nodeVars>>

\* acquire_excl: self.raw().lock_exclusive(), taking the writer bit
acquire_excl(t) ==
    /\ pc[t] = "loop"
    /\ data < MaxData
    /\ ~ rw.writer
    /\ ~ rw.upgradable
    /\ rw' = [rw EXCEPT !.writer = TRUE]
    /\ Goto(t, "excl_wait")
    /\ UNCHANGED <<x, data, mtx, semState, semMutex, parked, waitRet, seen,
                   posts, incs, semInit, nodeVars>>

\* acquire_excl: lock_exclusive returns once the readers have left
acquire_excl_granted(t) ==
    /\ pc[t] = "excl_wait"
    /\ rw.readers = 0
    /\ Goto(t, "write")
    /\ UNCHANGED <<x, data, mtx, rw, semState, semMutex, parked, waitRet,
                   seen, posts, incs, semInit, nodeVars>>

\* release_shared: self.raw().unlock_shared()
release_shared(t) ==
    /\ pc[t] = "release"
    /\ rw' = [rw EXCEPT !.readers = @ - 1]
    /\ Goto(t, "loop")
    /\ UNCHANGED <<x, data, mtx, semState, semMutex, parked, waitRet, seen,
                   posts, incs, semInit, nodeVars>>

\* release_upgradable: self.raw().unlock_upgradable()
release_upgradable(t) ==
    /\ pc[t] = "release_upgradable"
    /\ rw' = [rw EXCEPT !.readers = @ - 1, !.upgradable = FALSE]
    /\ x' = [x EXCEPT ![t] = 0]
    /\ Goto(t, "loop")
    /\ UNCHANGED <<data, mtx, semState, semMutex, parked, waitRet, seen,
                   posts, incs, semInit, nodeVars>>

\* release_excl: self.raw().unlock_exclusive(); rw_maybe_increment_thread
\* returns after it, rw_increment_thread loops
release_excl(t) ==
    /\ pc[t] = "release_excl"
    /\ rw' = [rw EXCEPT !.writer = FALSE]
    /\ x' = [x EXCEPT ![t] = 0]
    /\ Goto(t, IF t \in RwMaybes THEN "returned" ELSE "loop")
    /\ UNCHANGED <<data, mtx, semState, semMutex, parked, waitRet, seen,
                   posts, incs, semInit, nodeVars>>

\* upgrade_shared, mutated: gives up the upgradable hold and only then
\* queues for the writer bit like acquire_excl
upgrade_shared_reacquire(t) ==
    /\ pc[t] = "upgrade"
    /\ rw' = [rw EXCEPT !.readers = @ - 1, !.upgradable = FALSE]
    /\ Goto(t, "upgrade_wait")
    /\ UNCHANGED <<x, data, mtx, semState, semMutex, parked, waitRet, seen,
                   posts, incs, semInit, nodeVars>>

\* upgrade_shared, mutated: takes the writer bit but stays counted as a
\* reader while it waits for the readers to leave
upgrade_shared_in_place(t) ==
    /\ pc[t] = "upgrade"
    /\ rw' = [rw EXCEPT !.upgradable = FALSE, !.writer = TRUE]
    /\ Goto(t, "upgrade_wait")
    /\ UNCHANGED <<x, data, mtx, semState, semMutex, parked, waitRet, seen,
                   posts, incs, semInit, nodeVars>>

\* upgrade_shared: self.raw().upgrade(), trading the upgradable hold for
\* the writer bit
upgrade_shared(t) ==
    /\ pc[t] = "upgrade"
    /\ rw' = [rw EXCEPT !.readers = @ - 1, !.upgradable = FALSE,
                        !.writer = TRUE]
    /\ Goto(t, "upgrade_wait")
    /\ UNCHANGED <<x, data, mtx, semState, semMutex, parked, waitRet, seen,
                   posts, incs, semInit, nodeVars>>

\* upgrade_shared: upgrade returns once the other readers have left
upgrade_shared_granted(t) ==
    /\ pc[t] = "upgrade_wait"
    /\ rw.readers = 0
    /\ Goto(t, "add")
    /\ UNCHANGED <<x, data, mtx, rw, semState, semMutex, parked, waitRet,
                   seen, posts, incs, semInit, nodeVars>>

(***************************************************************************)
(* test_rwlatch and its threads                                            *)
(***************************************************************************)
\* rw_check_thread, `if inner.data > 50 { sem.post() }` under the read guard
rw_check_thread(t) ==
    /\ t \in RwCheckers
    /\ pc[t] = "held"
    /\ Goto(t, IF data > Threshold THEN "post" ELSE "release")
    /\ UNCHANGED <<x, data, mtx, rw, semState, semMutex, parked, waitRet,
                   seen, posts, incs, semInit, nodeVars>>

\* rw_determine, `(*rw_sync.data_ptr()).data % 3 == 0` under the
\* upgradable latch, and the branch of rw_maybe_increment_thread on it
rw_determine(t) ==
    /\ pc[t] = "determine"
    /\ x' = [x EXCEPT ![t] = data]
    /\ Goto(t, IF data % 3 = 0 THEN "upgrade" ELSE "release_upgradable")
    /\ UNCHANGED <<data, mtx, rw, semState, semMutex, parked, waitRet, seen,
                   posts, incs, semInit, nodeVars>>

\* rw_maybe_increment_thread, `(*rw_sync.data_ptr()).data += 5`
rw_maybe_increment_thread(t) ==
    /\ pc[t] = "add"
    /\ data' = data + 5
    /\ incs' = incs + 5
    /\ Goto(t, "release_excl")
    /\ UNCHANGED <<x, mtx, rw, semState, semMutex, parked, waitRet, seen,
                   posts, semInit, nodeVars>>

\* rw_increment_thread, `ts.data += 1` under the write guard
rw_increment_thread(t) ==
    /\ pc[t] = "write"
    /\ data' = data + 1
    /\ incs' = incs + 1
    /\ Goto(t, "release_excl")
    /\ UNCHANGED <<x, mtx, rw, semState, semMutex, parked, waitRet, seen,
                   posts, semInit, nodeVars>>

InitRw ==
    /\ InitNoNodes
    /\ BinarySemaphore_init(FALSE)
    /\ data = 0
    /\ mtx = FALSE
    /\ rw = RwLock_new
    /\ pc = [t \in {Main} \cup RwWorkers |->
                IF t = Main THEN "wait" ELSE "loop"]
    /\ x = [t \in {Main} \cup RwWorkers |-> 0]
    /\ waitRet = [t \in {Main} |-> FALSE]
    /\ seen = 0
    /\ posts = 0
    /\ incs = 0

NextRw ==
    \/ \E t \in RwCheckers : acquire_shared(t)
    \/ \E t \in RwCheckers : rw_check_thread(t)
    \/ \E t \in RwCheckers : post_lock(t)
    \/ \E t \in RwCheckers : post_flip(t)
    \/ \E t \in RwCheckers : release_shared(t)
    \/ \E t \in RwMaybes : acquire_upgradable(t)
    \/ \E t \in RwMaybes : rw_determine(t)
    \/ \E t \in RwMaybes : upgrade_shared(t)
    \/ \E t \in RwMaybes : upgrade_shared_granted(t)
    \/ \E t \in RwMaybes : rw_maybe_increment_thread(t)
    \/ \E t \in RwMaybes : release_upgradable(t)
    \/ \E t \in RwIncrementers : acquire_excl(t)
    \/ \E t \in RwIncrementers : acquire_excl_granted(t)
    \/ \E t \in RwIncrementers : rw_increment_thread(t)
    \/ \E t \in RwMaybes \cup RwIncrementers : release_excl(t)
    \/ wait_lock(Main)
    \/ wait_check(Main)
    \/ wait_wake(Main)
    \/ main_assert

SpecRw == InitRw /\ [][NextRw]_vars

\* the steps of one worker of test_rwlatch
RwWorkerStep(t) ==
    \/ acquire_shared(t)
    \/ rw_check_thread(t)
    \/ post_lock(t)
    \/ post_flip(t)
    \/ release_shared(t)
    \/ acquire_upgradable(t)
    \/ rw_determine(t)
    \/ upgrade_shared(t)
    \/ upgrade_shared_granted(t)
    \/ rw_maybe_increment_thread(t)
    \/ release_upgradable(t)
    \/ acquire_excl(t)
    \/ acquire_excl_granted(t)
    \/ rw_increment_thread(t)
    \/ release_excl(t)

\* Every thread that can take a step is scheduled in the end.
FairSpecRw ==
    /\ SpecRw
    /\ \A t \in RwWorkers : WF_vars(RwWorkerStep(t))
    /\ WF_vars(MainStep)

(***************************************************************************)
(* Claims about the reader/writer latch (SpecRw).                          *)
(***************************************************************************)
\* thread t is between acquire_shared and release_shared
HoldsShared(t) ==
    t \in RwCheckers /\ pc[t] \in {"held", "post", "post_locked", "release"}

\* thread t is between acquire_upgradable and its upgrade_shared or
\* release_upgradable
HoldsUpgradable(t) == pc[t] \in {"determine", "upgrade", "release_upgradable"}

\* thread t is between the return of acquire_excl or upgrade_shared and
\* its release_excl
HoldsExcl(t) == pc[t] \in {"add", "write", "release_excl"}

\* C4: an exclusive holder coexists with no other holder of any mode, and
\* at most one thread holds the upgradable mode (shared holders may coexist
\* with each other and with the upgradable holder).
C4_ModesExclude ==
    /\ \A t \in RwWorkers : HoldsExcl(t) =>
           \A u \in RwWorkers \ {t} :
               ~ HoldsExcl(u) /\ ~ HoldsUpgradable(u) /\ ~ HoldsShared(u)
    /\ Cardinality({t \in RwWorkers : HoldsUpgradable(t)}) <= 1

\* C4 witness: two shared holders together with the upgradable holder,
\* after exclusive holds have come and gone.
C4_Witness ==
    /\ Cardinality({t \in RwWorkers : HoldsShared(t)}) >= 2
    /\ \E t \in RwWorkers : HoldsUpgradable(t)
    /\ data >= 1

\* C5: from acquire_upgradable until upgrade_shared has returned, no other
\* thread holds exclusive or upgradable, so what the thread read under the
\* upgradable hold (data % 3 == 0) still holds when it writes.
C5_UpgradeKeepsWhatWasRead ==
    \A t \in RwMaybes :
        pc[t] \in {"determine", "upgrade", "upgrade_wait", "add"} =>
            /\ \A u \in RwWorkers \ {t} :
                   ~ HoldsExcl(u) /\ ~ HoldsUpgradable(u)
            /\ pc[t] \in {"upgrade", "upgrade_wait", "add"} =>
                   (data = x[t] /\ data % 3 = 0)

\* C5 witness: a thread is about to write under its upgraded hold, on data
\* that writers have changed before, while a writer is waiting to get in.
C5_Witness ==
    \E t \in RwMaybes :
        /\ pc[t] = "add"
        /\ data >= 3
        /\ \E u \in RwIncrementers : pc[u] = "loop"

\* thread t is inside a latch call that has not returned, or about to
\* make one
RwWaiting(t) ==
    \/ pc[t] \in {"excl_wait", "upgrade_wait"}
    \/ pc[t] = "loop" /\ (t \in RwCheckers \/ data < MaxData)

\* C17: threads that share one cell and each keep to acquire_shared /
\* release_shared, acquire_excl / release_excl, or acquire_upgradable
\* followed by upgrade_shared and release_excl or by release_upgradable
\* never deadlock (while a thread is in or before a latch call, some
\* thread can take a step), and under fair scheduling every thread
\* waiting in upgrade_shared is granted the exclusive latch in the end.
C17_UpgradablePatternIsDeadlockFree ==
    /\ []((\E t \in RwWorkers : RwWaiting(t)) => ENABLED NextRw)
    /\ \A t \in RwMaybes : (pc[t] = "upgrade_wait") ~> (pc[t] = "add")

\* C17 witness: a thread waits in upgrade_shared while a reader still
\* holds the latch and a writer is queued behind both.
C17_Witness ==
    \E t \in RwMaybes :
        /\ pc[t] = "upgrade_wait"
        /\ rw.readers > 0
        /\ \E u \in RwCheckers : HoldsShared(u)
        /\ \E u \in RwIncrementers : pc[u] = "loop"

(***************************************************************************)
(* The BinarySemaphore on its own: threads that call wait() again and      *)
(* again and threads that call post(), at most MaxPosts times in all, on a *)
(* semaphore initialised with either state.                                *)
(***************************************************************************)
SemWaiters == 1..NumSemWaiters

SemPosters == (NumSemWaiters + 1)..(NumSemWaiters + NumSemPosters)

\* the post() calls that have been made and have not returned
PostsInFlight ==
    Cardinality({t \in SemPosters : pc[t] \in {"post", "post_locked"}})

\* a thread calls sem.post()
sem_post_call(t) ==
    /\ pc[t] = "idle"
    /\ posts + PostsInFlight < MaxPosts
    /\ Goto(t, "post")
    /\ UNCHANGED <<x, data, mtx, rw, semState, semMutex, parked, waitRet,
                   seen, posts, incs, semInit, nodeVars>>

\* post() has returned to its caller
sem_post_return(t) ==
    /\ pc[t] = "release"
    /\ Goto(t, "idle")
    /\ UNCHANGED <<x, data, mtx, rw, semState, semMutex, parked, waitRet,
                   seen, posts, incs, semInit, nodeVars>>

\* a thread whose wait() has returned calls sem.wait() again
sem_wait_again(t) ==
    /\ pc[t] = "assert"
    /\ Goto(t, "wait")
    /\ UNCHANGED <<x, data, mtx, rw, semState, semMutex, parked, waitRet,
                   seen, posts, incs, semInit, nodeVars>>

InitSem ==
    /\ InitNoNodes
    /\ \E state \in BOOLEAN : BinarySemaphore_init(state)
    /\ data = 0
    /\ mtx = FALSE
    /\ rw = RwLock_new
    /\ pc = [t \in SemWaiters \cup SemPosters |->
                IF t \in SemWaiters THEN "wait" ELSE "idle"]
    /\ x = [t \in SemWaiters \cup SemPosters |-> 0]
    /\ waitRet = [t \in SemWaiters |-> FALSE]
    /\ seen = 0
    /\ posts = 0
    /\ incs = 0

NextSem ==
    \/ \E t \in SemPosters : sem_post_call(t)
    \/ \E t \in SemPosters : post_lock(t)
    \/ \E t \in SemPosters : post_flip(t)
    \/ \E t \in SemPosters : sem_post_return(t)
    \/ \E t \in SemWaiters : wait_lock(t)
    \/ \E t \in SemWaiters : wait_check(t)
    \/ \E t \in SemWaiters : wait_wake(t)
    \/ \E t \in SemWaiters : sem_wait_again(t)

SpecSem == InitSem /\ [][NextSem]_vars

\* the steps of a thread inside post() or wait(): taking the semaphore's
\* mutex, and what it does under it
SemCallStep(t) ==
    \/ post_lock(t)
    \/ post_flip(t)
    \/ sem_post_return(t)
    \/ wait_lock(t)
    \/ wait_check(t)
    \/ wait_wake(t)

\* A thread inside a call keeps being scheduled and gets the mutex in the
\* end; whether a thread makes another call is up to it.
FairSpecSem ==
    /\ SpecSem
    /\ \A t \in SemWaiters \cup SemPosters : SF_vars(SemCallStep(t))

(***************************************************************************)
(* Claims about the BinarySemaphore on its own (SpecSem, FairSpecSem).     *)
(***************************************************************************)
\* thread t takes a step of its own inside wait()
WaitStep(t) ==
    /\ pc[t] \in {"wait", "wait_locked", "wait_woken"}
    /\ pc'[t] # pc[t]

C19_NoWaiterStranded ==
    \A t \in SemWaiters :
        (pc[t] = "wait_parked" /\ semState)
            ~> (pc[t] # "wait_parked" \/ ~ semState)

====
